---- MODULE Spec2Model ----
(***************************************************************************)
(* django-macros: the template tags of macros/templatetags/macros.py       *)
(* (macro, loadmacros, use_macro, macro_block, macro_arg, macro_kwarg) and  *)
(* of the two copies of repeatedblocks.py (repeated_block, repeat).         *)
(*                                                                         *)
(* A template is compiled tag by tag (one action per tag function, acting   *)
(* on the parser's _macros / _repeated_blocks attributes and on the node    *)
(* list built so far) and is then rendered node by node against a context   *)
(* (a stack of dictionaries, as the host's Context is).                     *)
(*                                                                         *)
(* Strings.  A rendered string is kept as the sequence of its pieces; the   *)
(* macro bodies of the model are of the shape "text{{ v1 }};{{ v2 }};..."   *)
(* (the shape of the bodies in macros/tests.py), so the sequence of pieces  *)
(* determines the rendered text and conversely.                             *)
(***************************************************************************)
EXTENDS Integers, Sequences, FiniteSets, TLC

VARIABLES
    phase,            \* "parse" | "render" | "done" | "error"
    macros,           \* parser._macros: [exists, items: name -> DefineMacroNode id]
    repeated_blocks,  \* parser._repeated_blocks: [exists, items: name -> BlockNode]
    loaded_blocks,    \* the host parser's record of the block names seen (do_block)
    defs,             \* the DefineMacroNode objects, by id (they are mutated on render)
    nodelist,         \* the nodes the tag functions returned, in order
    tokens,           \* the tags the parser has handled, in order
    copy,             \* which copy of repeatedblocks.py is installed
    err,              \* the exception raised, NoError when none
    context,          \* the rendering Context: a stack of dictionaries
    pos,              \* index of the next node of nodelist to render
    out,              \* the pieces rendered so far
    renders,          \* how many times Template.render has been called
    trace             \* per rendered node: what it saw and what it produced

vars == <<phase, macros, repeated_blocks, loaded_blocks, defs, nodelist,
          tokens, copy, err, context, pos, out, renders, trace>>

(***************************************************************************)
(* Bounds                                                                  *)
(***************************************************************************)
\* the number of top-level tags of a template
MaxNodes == 3
\* the number of times one compiled template is rendered
MaxRenders == 2

(***************************************************************************)
(* Token bits.  token.split_contents() yields the bits of a tag; a bit is   *)
(* kept by the form the regular expressions of macros.py tell apart.        *)
(***************************************************************************)
\* [A-Za-z_][\w_]* : a python variable name
NameBit(t) == [form |-> "name", text |-> t]
\* "...." or '....' : a quoted string, text is what stands between the quotes
QuotedBit(t) == [form |-> "quoted", text |-> t]
\* \d+
NumberBit(t) == [form |-> "number", text |-> t]
\* name=value with value a quoted string or a variable name
KwargBit(k, v) == [form |-> "kwarg", key |-> k, val |-> v]
\* anything else: 'foo'o, kw=a'arg', 'kw'=arg, arg|filter, ...
BadBit == [form |-> "bad"]

(***************************************************************************)
(* Exceptions                                                              *)
(***************************************************************************)
NoError == [exc |-> "none", msg |-> "", args |-> <<>>]

TemplateSyntaxError(msg, args) ==
    [exc |-> "TemplateSyntaxError", msg |-> msg, args |-> args]

VariableDoesNotExist(name) ==
    [exc |-> "VariableDoesNotExist", msg |-> "Failed lookup for key [{0}]",
     args |-> <<name>>]

\* 'str' object has no attribute 'resolve'
AttributeError(attr) ==
    [exc |-> "AttributeError", msg |-> "object has no attribute '{0}'",
     args |-> <<attr>>]

TemplateDoesNotExist(name) ==
    [exc |-> "TemplateDoesNotExist", msg |-> "{0}", args |-> <<name>>]

ValueError(msg, args) == [exc |-> "ValueError", msg |-> msg, args |-> args]

(***************************************************************************)
(* The rendering context: context[key] reads the topmost dictionary that    *)
(* holds key, context[key] = value writes the topmost dictionary.           *)
(***************************************************************************)
EmptyDict == <<>>

Holders(c, key) == {i \in 1..Len(c) : key \in DOMAIN c[i]}

Has(c, key) == Holders(c, key) # {}

Get(c, key) ==
    LET top == CHOOSE i \in Holders(c, key) : \A j \in Holders(c, key) : j <= i
    IN  c[top][key]

SetItem(c, key, value) ==
    [c EXCEPT ![Len(c)] = (key :> value) @@ c[Len(c)]]

Push(c, d) == Append(c, d)

\* {{ key }} in a node list: an unknown variable renders as the empty string
RenderVariable(c, key) == IF Has(c, key) THEN Get(c, key) ELSE ""

(***************************************************************************)
(* template.Variable and the objects UseMacroNode resolves                  *)
(***************************************************************************)
\* template.Variable(bit): a quoted string or a number is a literal, a name
\* is looked up in the context when resolved
Variable(bit) ==
    IF bit.form = "name"
    THEN [kind |-> "var", v |-> bit.text]
    ELSE [kind |-> "lit", v |-> bit.text]

\* the value a Variable resolved to (a plain string, no longer a Variable)
Resolved(s) == [kind |-> "str", v |-> s]

IsVariable(x) == x.kind \in {"var", "lit"}

\* a piece of a node list: literal text, or {{ name }}
Text(t) == [piece |-> "text", v |-> t]
Ref(n) == [piece |-> "ref", v |-> n]

RenderPiece(p, c) == IF p.piece = "text" THEN p.v ELSE RenderVariable(c, p.v)

\* NodeList.render of the pieces of a body
RenderNodelist(body, c) == [i \in 1..Len(body) |-> RenderPiece(body[i], c)]

\* MacroArgNode / MacroKwargNode: the tag's contents, kept for resolve()
MacroArgNode(p) == [kind |-> "arg", keyword |-> "", content |-> p]
MacroKwargNode(keyword, p) == [kind |-> "kwarg", keyword |-> keyword, content |-> p]

\* MacroArgNode.resolve: the contents rendered in the context
MacroArgNode_resolve(node, c) == [ok |-> TRUE, v |-> RenderPiece(node.content, c)]

\* Variable.resolve: the literal, or the context's value; a name the context
\* does not hold raises VariableDoesNotExist
Variable_resolve(var, c) ==
    IF var.kind = "lit" THEN [ok |-> TRUE, v |-> var.v]
    ELSE IF Has(c, var.v) THEN [ok |-> TRUE, v |-> Get(c, var.v)]
    ELSE [ok |-> FALSE, v |-> var.v]

\* x.resolve(context) for the objects found in UseMacroNode.args / .kwargs
Resolve(x, c) ==
    IF x.kind \in {"arg", "kwarg"} THEN MacroArgNode_resolve(x, c)
    ELSE Variable_resolve(x, c)

(***************************************************************************)
(* macros.py: the parser's store of macros                                  *)
(***************************************************************************)
\* an attribute the parser object does not have yet
NoAttribute == [exists |-> FALSE, items |-> <<>>]

\* _setup_macros_dict: parser._macros = {} unless the attribute exists
_setup_macros_dict(attr) ==
    IF attr.exists THEN attr ELSE [exists |-> TRUE, items |-> <<>>]

\* a variant of parser._macros[name] = node that keeps a name's first node
\* (parser._macros.setdefault(name, node))
SetMacroDefault(attr, name, id) ==
    [exists |-> attr.exists, items |-> attr.items @@ (name :> id)]

\* parser._macros[name] = node
SetMacro(attr, name, id) ==
    [exists |-> attr.exists, items |-> (name :> id) @@ attr.items]

\* DefineMacroNode.__init__
DefineMacroNode(name, body, args, kwargs) ==
    [name |-> name, nodelist |-> body, args |-> args, kwargs |-> kwargs]

(***************************************************************************)
(* do_macro: the arguments of {% macro name arg ... kwarg=default ... %}    *)
(***************************************************************************)
RECURSIVE MacroArguments(_, _, _)
\* the loop over `arguments`: a name is an arg, name=default a kwarg whose
\* default becomes a Variable, anything else is malformed
MacroArguments(arguments, i, acc) ==
    IF i > Len(arguments) THEN acc
    ELSE LET argument == arguments[i] IN
         IF argument.form = "name"
         THEN MacroArguments(arguments, i + 1,
                  [acc EXCEPT !.args = Append(@, argument.text)])
         ELSE IF argument.form = "kwarg"
         THEN MacroArguments(arguments, i + 1,
                  [acc EXCEPT !.kwargs =
                      (argument.key :> Variable(argument.val)) @@ @])
         ELSE [acc EXCEPT !.ok = FALSE]

\* what do_macro builds from the bits after the tag name, or the error it raises
MacroTag(token) ==
    IF Len(token.bits) = 0
    THEN [ok |-> FALSE,
          err |-> TemplateSyntaxError(
                      "'{0}' tag requires at least one argument (macro name)",
                      <<token.tag>>)]
    ELSE LET parsed == MacroArguments(Tail(token.bits), 1,
                           [ok |-> TRUE, args |-> <<>>, kwargs |-> <<>>])
         IN  IF ~parsed.ok
             THEN [ok |-> FALSE,
                   err |-> TemplateSyntaxError(
                               "Malformed arguments to the {0} tag.",
                               <<token.tag>>)]
             ELSE [ok |-> TRUE,
                   node |-> DefineMacroNode(token.bits[1].text, token.body,
                                            parsed.args, parsed.kwargs)]

(***************************************************************************)
(* parse_macro_params: the bits of use_macro and macro_block                *)
(***************************************************************************)
RECURSIVE MacroParams(_, _, _)
\* the loop over `values`: the kwarg regex is tried first, then the arg regex
MacroParams(values, i, acc) ==
    IF i > Len(values) THEN acc
    ELSE LET value == values[i] IN
         IF value.form = "kwarg"
         THEN MacroParams(values, i + 1,
                  [acc EXCEPT !.kwargs = (value.key :> Variable(value.val)) @@ @])
         ELSE IF value.form \in {"name", "quoted", "number"}
         THEN MacroParams(values, i + 1,
                  [acc EXCEPT !.args = Append(@, Variable(value))])
         ELSE [acc EXCEPT !.ok = FALSE]

parse_macro_params(token) ==
    IF Len(token.bits) = 0
    THEN [ok |-> FALSE,
          err |-> TemplateSyntaxError(
                      "{0} tag requires at least one argument (macro name)",
                      <<token.tag>>)]
    ELSE LET parsed == MacroParams(Tail(token.bits), 1,
                           [ok |-> TRUE, args |-> <<>>, kwargs |-> <<>>])
         IN  IF ~parsed.ok
             THEN [ok |-> FALSE,
                   err |-> TemplateSyntaxError(
                               "Malformed arguments to the {0} tag.",
                               <<token.tag>>)]
             ELSE [ok |-> TRUE, tag_name |-> token.tag,
                   macro_name |-> token.bits[1].text,
                   args |-> parsed.args, kwargs |-> parsed.kwargs]

\* try: parser._macros[macro_name]  except (AttributeError, KeyError)
MacroDefined(attr, macro_name) == attr.exists /\ macro_name \in DOMAIN attr.items

\* a variant of the message with its two arguments in the other order
NotDefinedErrorSwapped(macro_name, tag_name) ==
    TemplateSyntaxError("Macro '{0}' is not defined previously to the {1} tag",
                        <<tag_name, macro_name>>)

NotDefinedError(macro_name, tag_name) ==
    TemplateSyntaxError("Macro '{0}' is not defined previously to the {1} tag",
                        <<macro_name, tag_name>>)

\* UseMacroNode.__init__ / MacroBlockNode.__init__
UseMacroNode(tag, macro, args, kwargs) ==
    [type |-> "use", tag |-> tag, macro |-> macro, args |-> args, kwargs |-> kwargs]

(***************************************************************************)
(* macro_arg, macro_kwarg and the body of macro_block                       *)
(***************************************************************************)
\* do_macro_arg: the contents up to endmacro_arg
do_macro_arg(token) == [ok |-> TRUE, node |-> MacroArgNode(token.content)]

\* do_macro_kwarg: exactly one bit, the keyword
do_macro_kwarg(token) ==
    IF Len(token.bits) # 1
    THEN [ok |-> FALSE,
          err |-> TemplateSyntaxError(
                      "{0} tag requires exactly one argument, a keyword",
                      <<token.tag>>)]
    ELSE [ok |-> TRUE, node |-> MacroKwargNode(token.bits[1].text, token.content)]

\* a text node between the tags of a macro_block; blank: s.strip() == ""
TextNode(blank) == [kind |-> "textnode", keyword |-> "", blank |-> blank]

RECURSIVE ParseInner(_, _, _)
\* parser.parse(('endmacro_block',)): the nodes of the tags inside the block
ParseInner(inner, i, acc) ==
    IF i > Len(inner) THEN [ok |-> TRUE, nodes |-> acc]
    ELSE LET t == inner[i]
             r == IF t.tag = "macro_arg" THEN do_macro_arg(t)
                  ELSE IF t.tag = "macro_kwarg" THEN do_macro_kwarg(t)
                  ELSE [ok |-> TRUE, node |-> TextNode(t.blank)]
         IN  IF r.ok THEN ParseInner(inner, i + 1, Append(acc, r.node)) ELSE r

RECURSIVE SortBlockNodes(_, _, _, _, _)
\* the loop of do_macro_block over the block's nodes, sorting them into
\* args and kwargs
SortBlockNodes(nodes, i, macro, tag_name, acc) ==
    IF i > Len(nodes) THEN acc
    ELSE LET node == nodes[i] IN
         IF node.kind = "kwarg"
         THEN IF node.keyword \in DOMAIN macro.kwargs
              THEN IF node.keyword \notin DOMAIN acc.kwargs
                   THEN SortBlockNodes(nodes, i + 1, macro, tag_name,
                            [acc EXCEPT !.kwargs = (node.keyword :> node) @@ @])
                   ELSE [acc EXCEPT !.ok = FALSE, !.err = TemplateSyntaxError(
                            "{0} template tag was supplied the same keyword argument multiple times.",
                            <<tag_name>>)]
              ELSE [acc EXCEPT !.ok = FALSE, !.err = TemplateSyntaxError(
                       "{0} template tag was supplied with a keyword argument not defined by the {1} macro.",
                       <<tag_name, macro.name>>)]
         ELSE IF node.kind = "arg"
         THEN SortBlockNodes(nodes, i + 1, macro, tag_name,
                  [acc EXCEPT !.args = Append(@, node)])
         ELSE IF ~node.blank
         THEN [acc EXCEPT !.ok = FALSE, !.err = TemplateSyntaxError(
                  "{0} template tag received an argument that is neither a arg or a kwarg tag. Make sure there's text or template tags directly descending from the {0} tag.",
                  <<tag_name>>)]
         ELSE SortBlockNodes(nodes, i + 1, macro, tag_name, acc)

\* do_macro_block after the macro was found: the block's nodes are parsed and
\* sorted, and more arg tags than the macro has args is an error
MacroBlock(params, macro, id, inner) ==
    LET parsed == ParseInner(inner, 1, <<>>) IN
    IF ~parsed.ok THEN parsed
    ELSE LET sorted == SortBlockNodes(parsed.nodes, 1, macro, params.tag_name,
                           [ok |-> TRUE, err |-> NoError,
                            args |-> params.args, kwargs |-> params.kwargs])
         IN  IF ~sorted.ok THEN [ok |-> FALSE, err |-> sorted.err]
             ELSE IF Len(sorted.args) > Len(macro.args)
             THEN [ok |-> FALSE,
                   err |-> TemplateSyntaxError(
                               "{0} template tag was supplied too many arg block tags.",
                               <<params.tag_name>>)]
             ELSE [ok |-> TRUE,
                   node |-> UseMacroNode(params.tag_name, id, sorted.args, sorted.kwargs)]

(***************************************************************************)
(* Rendering                                                               *)
(***************************************************************************)
\* {k: v.resolve(context) for k, v in self.kwargs.items()}: the defaults
\* that cannot be resolved.  A default that is already a plain string (the
\* node was rendered before) has no resolve method.
DefaultError(kwargs, c) ==
    IF \E k \in DOMAIN kwargs : ~IsVariable(kwargs[k])
    THEN AttributeError("resolve")
    ELSE IF \E k \in DOMAIN kwargs : ~Variable_resolve(kwargs[k], c).ok
    THEN LET k == CHOOSE k \in DOMAIN kwargs : ~Variable_resolve(kwargs[k], c).ok
         IN  VariableDoesNotExist(kwargs[k].v)
    ELSE NoError

\* a variant of DefineMacroNode.render that keeps the defaults as Variables,
\* to be resolved where the macro is used
DefineMacroNode_render_lazy(macro, c) ==
    LET e == DefaultError(macro.kwargs, c) IN
    [err |-> e, macro |-> macro]

\* DefineMacroNode.render: the defaults become their values in the context of
\* the definition; nothing is assigned when a default fails to resolve
DefineMacroNode_render(macro, c) ==
    LET e == DefaultError(macro.kwargs, c) IN
    IF e # NoError THEN [err |-> e, macro |-> macro]
    ELSE [err |-> NoError,
          macro |-> [macro EXCEPT !.kwargs =
                        [k \in DOMAIN macro.kwargs |->
                            Resolved(Variable_resolve(macro.kwargs[k], c).v)]]]

RECURSIVE LoadMacrosNode_render(_, _, _, _)
\* LoadMacrosNode.render: for macro in self.macros: macro.render(context)
LoadMacrosNode_render(ids, i, heap, c) ==
    IF i > Len(ids) THEN [err |-> NoError, defs |-> heap]
    ELSE LET r == DefineMacroNode_render(heap[ids[i]], c) IN
         IF r.err # NoError THEN [err |-> r.err, defs |-> heap]
         ELSE LoadMacrosNode_render(ids, i + 1, [heap EXCEPT ![ids[i]] = r.macro], c)

RECURSIVE BindArgsSkipMissing(_, _, _, _)
\* a variant of BindArgs that leaves a macro arg with no supplied argument
\* unbound (the IndexError swallowed with `pass`)
BindArgsSkipMissing(margs, args, i, st) ==
    IF i > Len(margs) THEN st
    ELSE IF i <= Len(args)
    THEN LET r == Resolve(args[i], st.context) IN
         IF r.ok
         THEN BindArgsSkipMissing(margs, args, i + 1,
                  [st EXCEPT !.context = SetItem(@, margs[i], r.v)])
         ELSE [st EXCEPT !.err = VariableDoesNotExist(r.v)]
    ELSE BindArgsSkipMissing(margs, args, i + 1, st)

RECURSIVE BindArgs(_, _, _, _)
\* for i, arg in enumerate(self.macro.args): the i-th supplied argument is
\* resolved in the context as the loop left it and stored under arg; a macro
\* arg with no supplied argument (IndexError) is stored as ""
BindArgs(margs, args, i, st) ==
    IF i > Len(margs) THEN st
    ELSE IF i <= Len(args)
    THEN LET r == Resolve(args[i], st.context) IN
         IF r.ok
         THEN BindArgs(margs, args, i + 1,
                  [st EXCEPT !.context = SetItem(@, margs[i], r.v)])
         ELSE [st EXCEPT !.err = VariableDoesNotExist(r.v)]
    ELSE BindArgs(margs, args, i + 1,
             [st EXCEPT !.context = SetItem(@, margs[i], "")])

\* the value stored for a keyword the use does not supply: a default that
\* is still a Variable is resolved in the context of the use
BindDefault(default, c) ==
    IF IsVariable(default) THEN Variable_resolve(default, c)
    ELSE [ok |-> TRUE, v |-> default.v]

RECURSIVE BindKwargs(_, _, _, _, _)
\* for name, default in self.macro.kwargs.items(), in the order `order` the
\* dictionary yields its keys
BindKwargs(mkwargs, kwargs, order, i, st) ==
    IF i > Len(order) \/ st.err # NoError THEN st
    ELSE LET name == order[i]
             r == IF name \in DOMAIN kwargs
                  THEN Resolve(kwargs[name], st.context)
                  ELSE BindDefault(mkwargs[name], st.context)
         IN  IF r.ok
             THEN BindKwargs(mkwargs, kwargs, order, i + 1,
                      [st EXCEPT !.context = SetItem(@, name, r.v)])
             ELSE [st EXCEPT !.err = VariableDoesNotExist(r.v)]

\* UseMacroNode.render (MacroBlockNode inherits it): args, then kwargs, are
\* written into the context, and the macro's node list is rendered in it
UseMacroNode_render(node, macro, order, c) ==
    LET a == BindArgs(macro.args, node.args, 1, [context |-> c, err |-> NoError])
        k == BindKwargs(macro.kwargs, node.kwargs, order, 1, a)
    IN  IF k.err # NoError
        THEN [err |-> k.err, context |-> k.context, output |-> <<>>]
        ELSE [err |-> NoError, context |-> k.context,
              output |-> RenderNodelist(macro.nodelist, k.context)]

\* the orders in which a dictionary with the keys `keys` may yield them
KeyOrders(keys) ==
    {o \in [1..Cardinality(keys) -> keys] :
        \A i, j \in 1..Cardinality(keys) : i # j => o[i] # o[j]}

(***************************************************************************)
(* The templates of the model: the tags a template is written with          *)
(***************************************************************************)
MacroNames == {"m1", "m2"}

\* "label{{ a }};{{ b }};{{ k }};{{ j }};"
Body(label) == <<Text(label), Ref("a"), Ref("b"), Ref("k"), Ref("j")>>

\* {% macro name ... %}body{% endmacro %}.  live: the host renders the node
\* the tag returns (FALSE: the tag stands where the host renders nothing, as
\* at the top level of a template that extends another one)
MacroToken(bits, label, live) ==
    [tag |-> "macro", bits |-> bits, body |-> Body(label), live |-> live]

\* {% macro m1 a b k='d' j='e' %}
Macro1Bits ==
    <<NameBit("m1"), NameBit("a"), NameBit("b"),
      KwargBit("k", QuotedBit("d")), KwargBit("j", QuotedBit("e"))>>

\* {% macro m2 a k=foo %}
Macro2Bits == <<NameBit("m2"), NameBit("a"), KwargBit("k", NameBit("foo"))>>

MacroTokens ==
    { MacroToken(Macro1Bits, "M1", TRUE),
      MacroToken(Macro2Bits, "M2", TRUE),
      MacroToken(Macro2Bits, "M2", FALSE),
      \* {% macro m1 'arg' %} and {% macro %}
      MacroToken(<<NameBit("m1"), QuotedBit("arg")>>, "M1", TRUE),
      MacroToken(<<>>, "M1", TRUE) }

\* the templates get_template can load: the macro tags each holds, in order
TemplateFiles ==
    ("lib.html" :>
        << MacroToken(<<NameBit("m1"), NameBit("a"), NameBit("b"),
                        KwargBit("k", QuotedBit("default"))>>, "L1", TRUE),
           MacroToken(Macro2Bits, "L2", TRUE) >>)
    @@
    ("dup.html" :>
        << MacroToken(<<NameBit("m1"), NameBit("a")>>, "D1", TRUE),
           MacroToken(<<NameBit("m1"), NameBit("b"), NameBit("a")>>, "D2", TRUE) >>)

LoadToken(bits) == [tag |-> "loadmacros", bits |-> bits]

LoadTokens ==
    { LoadToken(<<QuotedBit("lib.html")>>),
      LoadToken(<<QuotedBit("dup.html")>>),
      LoadToken(<<QuotedBit("none.html")>>),
      LoadToken(<<NameBit("lib.html")>>),
      LoadToken(<<>>) }

\* the bits after the macro name of a use_macro tag
UseValues ==
    { <<>>,
      <<QuotedBit("x"), NameBit("a")>>,
      <<NameBit("a"), KwargBit("k", QuotedBit("v"))>>,
      <<QuotedBit("x"), KwargBit("k", NameBit("a"))>>,
      <<QuotedBit("x"), NumberBit("7"), KwargBit("j", NameBit("k"))>>,
      <<BadBit>> }

UseToken(bits) == [tag |-> "use_macro", bits |-> bits]

\* every value with m1; with m2 no arguments, a variable and a keyword, and
\* a malformed argument; and {% use_macro %}
UseTokens ==
    { UseToken(<<NameBit("m1")>> \o v) : v \in UseValues }
    \cup { UseToken(<<NameBit("m2")>>),
           UseToken(<<NameBit("m2"), NameBit("a"), KwargBit("k", QuotedBit("v"))>>),
           UseToken(<<NameBit("m2"), BadBit>>),
           UseToken(<<>>) }

ArgTag(p) == [tag |-> "macro_arg", bits |-> <<>>, content |-> p]
KwargTag(bits, p) == [tag |-> "macro_kwarg", bits |-> bits, content |-> p]
TextTag(blank) == [tag |-> "text", blank |-> blank]

\* what stands between {% macro_block ... %} and {% endmacro_block %}
BlockInners ==
    { <<>>,
      <<ArgTag(Text("x")), TextTag(TRUE), ArgTag(Ref("a"))>>,
      <<ArgTag(Ref("b")), KwargTag(<<NameBit("k")>>, Ref("a"))>>,
      <<KwargTag(<<NameBit("k")>>, Text("v")), KwargTag(<<NameBit("k")>>, Text("w"))>>,
      <<KwargTag(<<NameBit("z")>>, Text("v"))>>,
      <<KwargTag(<<>>, Text("v"))>>,
      <<TextTag(FALSE)>> }

BlockToken(bits, inner) == [tag |-> "macro_block", bits |-> bits, inner |-> inner]

\* every content with m1; with m2 no content and an argument with a
\* keyword; an argument in the tag and one in the block; {% macro_block %}
BlockTokens ==
    { BlockToken(<<NameBit("m1")>>, i) : i \in BlockInners }
    \cup { BlockToken(<<NameBit("m2")>>, <<>>),
           BlockToken(<<NameBit("m2")>>,
                      <<ArgTag(Ref("b")), KwargTag(<<NameBit("k")>>, Ref("a"))>>) }
    \cup { BlockToken(<<NameBit(n), QuotedBit("y")>>, <<ArgTag(Ref("a"))>>) :
             n \in MacroNames }
    \cup { BlockToken(<<>>, <<>>) }

\* {% with 'value' as var %} ... up to the end of the template
WithTokens == { [tag |-> "with", var |-> "foo", value |-> "new"] }

\* the dictionaries a template is rendered with: Context({...})
Contexts == { EmptyDict, ("a" :> "ca") @@ ("foo" :> "bar") }

(***************************************************************************)
(* Compiling a template: one action per tag function                        *)
(***************************************************************************)
NoTrace ==
    [node |-> 0, before |-> <<>>, after |-> <<>>, output |-> <<>>,
     outputs |-> <<>>, base |-> <<>>, compiled |-> <<>>,
     atdef |-> <<>>]

Parsing == phase = "parse" /\ Len(nodelist) < MaxNodes

RenderVars == <<copy, context, pos, out, renders, trace>>

\* the tag function raises e: no Template object comes to exist
Raise(token, e) ==
    /\ phase' = "error"
    /\ err' = e
    /\ tokens' = Append(tokens, token)
    /\ UNCHANGED <<macros, repeated_blocks, loaded_blocks, defs, nodelist>>
    /\ UNCHANGED RenderVars

\* the tag function returns node
Return(token, node) ==
    /\ nodelist' = Append(nodelist, node)
    /\ tokens' = Append(tokens, token)
    /\ UNCHANGED <<phase, err>>
    /\ UNCHANGED RenderVars

\* @register.tag(name="macro")
do_macro(token) ==
    /\ Parsing
    /\ LET r == MacroTag(token) IN
       IF ~r.ok THEN Raise(token, r.err)
       ELSE /\ defs' = Append(defs, r.node)
            /\ macros' = SetMacro(_setup_macros_dict(macros), r.node.name,
                                  Len(defs) + 1)
            /\ Return(token, [type |-> "define", def |-> Len(defs) + 1,
                              live |-> token.live])
            /\ UNCHANGED <<repeated_blocks, loaded_blocks>>

\* get_template(filename).nodelist.get_nodes_by_type(DefineMacroNode)
get_template(filename) ==
    [i \in 1..Len(TemplateFiles[filename]) |-> MacroTag(TemplateFiles[filename][i]).node]

RECURSIVE RegisterMacros(_, _, _, _)
\* for macro in macros: parser._macros[macro.name] = macro
RegisterMacros(attr, loaded, first, i) ==
    IF i > Len(loaded) THEN attr
    ELSE RegisterMacros(SetMacro(attr, loaded[i].name, first + i), loaded, first, i + 1)

\* what do_loadmacros raises before it loads anything, NoError when nothing
LoadTagError(token) ==
    IF Len(token.bits) # 1
    THEN TemplateSyntaxError("'{0}' tag requires exactly one argument (filename)",
                             <<token.tag>>)
    ELSE IF token.bits[1].form # "quoted"
    THEN TemplateSyntaxError(
             "Malformed argument to the {0} template tag. Argument must be in quotes.",
             <<token.tag>>)
    ELSE IF token.bits[1].text \notin DOMAIN TemplateFiles
    THEN TemplateDoesNotExist(token.bits[1].text)
    ELSE NoError

\* @register.tag(name="loadmacros")
do_loadmacros(token) ==
    /\ Parsing
    /\ IF LoadTagError(token) # NoError THEN Raise(token, LoadTagError(token))
       ELSE LET loaded == get_template(token.bits[1].text) IN
            /\ defs' = defs \o loaded
            /\ macros' = RegisterMacros(_setup_macros_dict(macros), loaded, Len(defs), 1)
            /\ Return(token, [type |-> "loadmacros",
                              macros |-> [i \in 1..Len(loaded) |-> Len(defs) + i]])
            /\ UNCHANGED <<repeated_blocks, loaded_blocks>>

\* @register.tag(name="use_macro")
do_usemacro(token) ==
    /\ Parsing
    /\ LET params == parse_macro_params(token) IN
       IF ~params.ok THEN Raise(token, params.err)
       ELSE IF ~MacroDefined(macros, params.macro_name)
       THEN Raise(token, NotDefinedError(params.macro_name, params.tag_name))
       ELSE /\ Return(token, UseMacroNode(params.tag_name,
                                          macros.items[params.macro_name],
                                          params.args, params.kwargs))
            /\ UNCHANGED <<macros, repeated_blocks, loaded_blocks, defs>>

\* @register.tag(name="macro_block")
do_macro_block(token) ==
    /\ Parsing
    /\ LET params == parse_macro_params(token) IN
       IF ~params.ok THEN Raise(token, params.err)
       ELSE IF ~MacroDefined(macros, params.macro_name)
       THEN Raise(token, NotDefinedError(params.macro_name, params.tag_name))
       ELSE LET id == macros.items[params.macro_name]
                r == MacroBlock(params, defs[id], id, token.inner)
            IN  IF ~r.ok THEN Raise(token, r.err)
                ELSE /\ Return(token, r.node)
                     /\ UNCHANGED <<macros, repeated_blocks, loaded_blocks, defs>>

\* the host's {% with %}, closed at the end of the template
do_with(token) ==
    /\ Parsing
    /\ Return(token, [type |-> "with", var |-> token.var, value |-> token.value])
    /\ UNCHANGED <<macros, repeated_blocks, loaded_blocks, defs>>

(***************************************************************************)
(* Rendering a compiled template: Template.render(Context(d)), node by node *)
(***************************************************************************)
ParserVars == <<macros, repeated_blocks, loaded_blocks, nodelist, tokens, copy>>

\* t = Template(...) has returned; t.render(Context(d))
Template_render(d) ==
    /\ \/ phase = "parse" /\ nodelist # <<>>
       \/ phase = "done"
    /\ renders < MaxRenders
    /\ phase' = "render"
    /\ context' = <<d>>
    /\ pos' = 1
    /\ out' = <<>>
    /\ renders' = renders + 1
    /\ trace' = [NoTrace EXCEPT !.base = <<d>>, !.compiled = defs]
    /\ UNCHANGED <<defs, err>>
    /\ UNCHANGED ParserVars

Rendering(type) ==
    /\ phase = "render"
    /\ pos <= Len(nodelist)
    /\ nodelist[pos].type = type

\* the node rendered without raising
Rendered == pos' = pos + 1 /\ UNCHANGED <<phase, err, renders>> /\ UNCHANGED ParserVars

\* the node raised e, and so does Template.render
RenderRaise(e) ==
    /\ phase' = "error"
    /\ err' = e
    /\ UNCHANGED <<pos, renders>>
    /\ UNCHANGED ParserVars

\* what the defaults of macro `id` resolve to in context c (for the record)
DefaultsAt(id, c) ==
    [k \in DOMAIN trace.compiled[id].kwargs |->
        BindDefault(trace.compiled[id].kwargs[k], c)]

\* a DefineMacroNode of the node list
RenderDefine ==
    /\ Rendering("define")
    /\ LET node == nodelist[pos]
           r == DefineMacroNode_render(defs[node.def], context)
       IN  /\ trace' = [trace EXCEPT !.outputs = Append(@, <<>>), !.atdef =
                           (node.def :> DefaultsAt(node.def, context)) @@ @]
           /\ IF ~node.live
              THEN Rendered /\ UNCHANGED <<defs, context, out>>
              ELSE IF r.err # NoError
              THEN RenderRaise(r.err) /\ UNCHANGED <<defs, context, out>>
              ELSE /\ defs' = [defs EXCEPT ![node.def] = r.macro]
                   /\ Rendered
                   /\ UNCHANGED <<context, out>>

\* a LoadMacrosNode of the node list
RenderLoad ==
    /\ Rendering("loadmacros")
    /\ LET node == nodelist[pos]
           r == LoadMacrosNode_render(node.macros, 1, defs, context)
       IN  /\ trace' = [trace EXCEPT !.outputs = Append(@, <<>>), !.atdef =
                           [i \in {node.macros[j] : j \in 1..Len(node.macros)} |->
                               DefaultsAt(i, context)] @@ @]
           /\ defs' = r.defs
           /\ IF r.err # NoError THEN RenderRaise(r.err) ELSE Rendered
           /\ UNCHANGED <<context, out>>

\* a UseMacroNode or MacroBlockNode of the node list
RenderUse ==
    /\ Rendering("use")
    /\ LET node == nodelist[pos] IN
       \E order \in KeyOrders(DOMAIN defs[node.macro].kwargs) :
         LET r == UseMacroNode_render(node, defs[node.macro], order, context) IN
         /\ context' = r.context
         /\ out' = out \o r.output
         /\ trace' = [trace EXCEPT !.node = pos, !.before = context,
                                   !.after = r.context, !.output = r.output,
                                   !.outputs = Append(@, r.output)]
         /\ IF r.err # NoError THEN RenderRaise(r.err) ELSE Rendered
         /\ UNCHANGED defs

\* the host's WithNode: a new dictionary on the context for what follows
RenderWith ==
    /\ Rendering("with")
    /\ LET node == nodelist[pos] IN
       /\ context' = Push(context, node.var :> node.value)
       /\ trace' = [trace EXCEPT !.base = Push(@, node.var :> node.value),
                                 !.outputs = Append(@, <<>>)]
    /\ Rendered
    /\ UNCHANGED <<defs, out>>

\* the node list is exhausted: the with blocks end, Template.render returns
RenderEnd ==
    /\ phase = "render"
    /\ pos > Len(nodelist)
    /\ phase' = "done"
    /\ context' = <<context[1]>>
    /\ UNCHANGED <<defs, err, pos, out, renders, trace>>
    /\ UNCHANGED ParserVars

(***************************************************************************)
(* repeatedblocks.py, in its two copies: macros/templatetags and            *)
(* test_project_python27/.../macros/templatetags                            *)
(***************************************************************************)
Copies == {"macros", "test_project_python27"}

\* set_repeated_blocks: parser._repeated_blocks = {} unless it exists
set_repeated_blocks(attr) ==
    IF attr.exists THEN attr ELSE [exists |-> TRUE, items |-> <<>>]

\* the exception raised when split_contents() does not yield two bits:
\* template.TemplateSyntexError is no attribute of django.template
WrongArgumentCount(c, token) ==
    IF c = "macros" THEN AttributeError("TemplateSyntexError")
    ELSE TemplateSyntaxError("{0} tag takes only one argument", <<token.tag>>)

\* the exception `repeat` raises when the block is not stored
NoBlockFound(c, block_name, tag_name) ==
    IF c = "macros"
    THEN ValueError("No block {0} tag was found before the {1} tag",
                    <<block_name, tag_name>>)
    ELSE TemplateSyntaxError(
             "No repeated block {0} tag was found before the {1} tag",
             <<block_name, tag_name>>)

\* the host's BlockNode(name, nodelist)
BlockNode(name, body) == [type |-> "block", name |-> name, nodelist |-> body]

\* the host's do_block: a block name may be used once in a template
do_block(loaded, token) ==
    IF token.bits[1].text \in loaded
    THEN [ok |-> FALSE,
          err |-> TemplateSyntaxError(
                      "'{0}' tag with name '{1}' appears more than once",
                      <<token.tag, token.bits[1].text>>)]
    ELSE [ok |-> TRUE, node |-> BlockNode(token.bits[1].text, token.body)]

\* a variant of parser._repeated_blocks[block_name] that yields a stored
\* block whatever its name
AnyStoredBlock(attr, block_name) ==
    attr.items[CHOOSE n \in DOMAIN attr.items : TRUE]

\* parser._repeated_blocks[block_name]
StoredBlock(attr, block_name) == attr.items[block_name]

\* a variant of the registration under the names the module docstring uses
TagFunctionDocumented(tag_name) ==
    IF tag_name = "repeatedblock" THEN "repeated_block"
    ELSE IF tag_name = "repeat" THEN "repeat"
    ELSE "none"

\* the library's tags: a bare @register.tag registers a function under its
\* own name; "none" for a name the library does not hold
TagFunction(tag_name) ==
    IF tag_name \in {"repeated_block", "repeat"} THEN tag_name ELSE "none"

\* the host parser meeting a block tag no loaded library holds
invalid_block_tag(token) ==
    /\ Parsing
    /\ TagFunction(token.tag) = "none"
    /\ Raise(token, TemplateSyntaxError("Invalid block tag: '{0}'", <<token.tag>>))

\* the host parser meeting template text: a TextNode joins the node list
do_text(token) ==
    /\ Parsing
    /\ Return(token, [type |-> "text", s |-> token.s])
    /\ UNCHANGED <<macros, repeated_blocks, loaded_blocks, defs>>

\* the host's TextNode.render
RenderText ==
    /\ Rendering("text")
    /\ out' = out \o <<nodelist[pos].s>>
    /\ trace' = [trace EXCEPT !.outputs = Append(@, <<nodelist[pos].s>>)]
    /\ Rendered
    /\ UNCHANGED <<defs, context>>

\* @register.tag def repeated_block(parser, token)
repeated_block(token) ==
    /\ Parsing
    /\ IF Len(token.bits) # 1
       THEN /\ Raise(token, WrongArgumentCount(copy, token))
       ELSE LET r == do_block(loaded_blocks, token) IN
            IF ~r.ok
            THEN /\ phase' = "error"
                 /\ err' = r.err
                 /\ tokens' = Append(tokens, token)
                 /\ repeated_blocks' = set_repeated_blocks(repeated_blocks)
                 /\ UNCHANGED <<macros, loaded_blocks, defs, nodelist>>
                 /\ UNCHANGED RenderVars
            ELSE /\ loaded_blocks' = loaded_blocks \cup {token.bits[1].text}
                 /\ repeated_blocks' =
                        [exists |-> TRUE,
                         items |-> (token.bits[1].text :> r.node)
                                   @@ set_repeated_blocks(repeated_blocks).items]
                 /\ Return(token, r.node)
                 /\ UNCHANGED <<macros, defs>>

\* @register.tag def repeat(parser, token)
repeat(token) ==
    /\ Parsing
    /\ IF Len(token.bits) # 1
       THEN Raise(token, WrongArgumentCount(copy, token))
       ELSE IF ~(repeated_blocks.exists
                 /\ token.bits[1].text \in DOMAIN repeated_blocks.items)
       THEN Raise(token, NoBlockFound(copy, token.bits[1].text, token.tag))
       ELSE /\ Return(token, StoredBlock(repeated_blocks, token.bits[1].text))
            /\ UNCHANGED <<macros, repeated_blocks, loaded_blocks, defs>>

\* the host's BlockNode.render: the block's node list, rendered in a new
\* dictionary of the context that is dropped afterwards
RenderBlock ==
    /\ Rendering("block")
    /\ LET node == nodelist[pos]
           output == RenderNodelist(node.nodelist, Push(context, "block" :> node.name))
       IN  /\ out' = out \o output
           /\ trace' = [trace EXCEPT !.outputs = Append(@, output)]
    /\ Rendered
    /\ UNCHANGED <<defs, context>>

BlockNames == {"rblock1", "rblock2"}

\* {% repeated_block name %}body{% endblock %}
RepeatedBlockToken(bits, body) ==
    [tag |-> "repeated_block", bits |-> bits, body |-> body]

BlockBodies == { <<Text("string1")>>, <<Text("string2"), Ref("a")>> }

\* {% repeatedblock name %}body{% endblock %}, as the module docstring
\* spells the tag
DocumentedBlockToken(bits, body) ==
    [tag |-> "repeatedblock", bits |-> bits, body |-> body]

\* the block of the docstring's example
TitleBody == <<Text("Repeated Block Tags")>>

RepeatedBlockTokens ==
    { RepeatedBlockToken(<<NameBit(n)>>, b) : n \in BlockNames, b \in BlockBodies }
    \cup { RepeatedBlockToken(<<>>, <<Text("string1")>>),
           RepeatedBlockToken(<<NameBit("arg1"), NameBit("arg2")>>, <<Text("string1")>>) }
    \cup { RepeatedBlockToken(<<NameBit("title")>>, TitleBody),
           DocumentedBlockToken(<<NameBit("title")>>, TitleBody) }

RepeatToken(bits) == [tag |-> "repeat", bits |-> bits]

\* template text between two tags
TextToken(s) == [tag |-> "text", s |-> s]

TextTokens == { TextToken(" ") }

RepeatTokens ==
    { RepeatToken(<<NameBit(n)>>) : n \in BlockNames \cup {"title"} }
    \cup { RepeatToken(<<>>), RepeatToken(<<NameBit("arg1"), NameBit("arg2")>>) }

(***************************************************************************)
(* The macros of one template, compiled and rendered                        *)
(***************************************************************************)
Init ==
    /\ phase = "parse"
    /\ macros = NoAttribute
    /\ repeated_blocks = NoAttribute
    /\ loaded_blocks = {}
    /\ defs = <<>>
    /\ nodelist = <<>>
    /\ tokens = <<>>
    /\ copy = "macros"
    /\ err = NoError
    /\ context = <<>>
    /\ pos = 0
    /\ out = <<>>
    /\ renders = 0
    /\ trace = NoTrace

Next ==
    \/ \E token \in MacroTokens : do_macro(token)
    \/ \E token \in LoadTokens : do_loadmacros(token)
    \/ \E token \in UseTokens : do_usemacro(token)
    \/ \E token \in BlockTokens : do_macro_block(token)
    \/ \E token \in WithTokens : do_with(token)
    \/ \E d \in Contexts : Template_render(d)
    \/ RenderDefine
    \/ RenderLoad
    \/ RenderUse
    \/ RenderWith
    \/ RenderEnd

Spec == Init /\ [][Next]_vars

(***************************************************************************)
(* The repeated blocks of one template, compiled and rendered, with either  *)
(* copy of repeatedblocks.py installed                                      *)
(***************************************************************************)
InitRB ==
    /\ phase = "parse"
    /\ macros = NoAttribute
    /\ repeated_blocks = NoAttribute
    /\ loaded_blocks = {}
    /\ defs = <<>>
    /\ nodelist = <<>>
    /\ tokens = <<>>
    /\ copy \in Copies
    /\ err = NoError
    /\ context = <<>>
    /\ pos = 0
    /\ out = <<>>
    /\ renders = 0
    /\ trace = NoTrace

NextRB ==
    \/ \E token \in RepeatedBlockTokens :
          TagFunction(token.tag) = "repeated_block" /\ repeated_block(token)
    \/ \E token \in RepeatTokens :
          TagFunction(token.tag) = "repeat" /\ repeat(token)
    \/ \E token \in RepeatedBlockTokens \cup RepeatTokens : invalid_block_tag(token)
    \/ \E token \in TextTokens : do_text(token)
    \/ RenderText
    \/ \E d \in Contexts : Template_render(d)
    \/ RenderBlock
    \/ RenderEnd

SpecRB == InitRB /\ [][NextRB]_vars

(***************************************************************************)
(* Properties                                                              *)
(***************************************************************************)
\* the variable names of the templates and contexts of the model
VarNames == {"a", "b", "k", "j", "foo", "block"}

\* context c holds value under key
Bound(c, key, value) == Has(c, key) /\ Get(c, key) = value

\* contexts c and d give key the same value, or both none
SameAt(c, d, key) ==
    /\ Has(c, key) <=> Has(d, key)
    /\ Has(c, key) => Get(c, key) = Get(d, key)

\* a use node has been rendered in this pass, and did not raise
UseFinished == trace.node # 0 /\ ~(phase = "error" /\ pos = trace.node)

\* the use node rendered last, and the macro it uses
LastUse == nodelist[trace.node]
LastMacro == defs[LastUse.macro]

\* the macro of the last use as it was when this rendering pass began
LastCompiled == trace.compiled[LastUse.macro]

\* every argument and keyword value the last use supplies has a value in
\* the context the use node was rendered in
SuppliedResolve ==
    /\ \A i \in 1..Len(LastUse.args) : Resolve(LastUse.args[i], trace.before).ok
    /\ \A n \in DOMAIN LastUse.kwargs : Resolve(LastUse.kwargs[n], trace.before).ok

\* C1: once a use_macro / macro_block node has finished rendering, every
\* variable of the context has the value, or the absence of a value, it had
\* immediately before the node started rendering.
C1_BindingsAreTransient ==
    UseFinished => \A key \in VarNames : SameAt(trace.before, trace.after, key)

RECURSIVE AloneBefore(_, _, _, _)
\* the macros and the context node `target` is rendered with when every
\* other use node is taken out of the template (ok: the nodes before it
\* render without raising)
AloneBefore(target, p, heap, c) ==
    IF p = target THEN [ok |-> TRUE, defs |-> heap, context |-> c]
    ELSE LET node == nodelist[p] IN
         IF node.type = "define" /\ node.live
         THEN LET r == DefineMacroNode_render(heap[node.def], c) IN
              IF r.err # NoError THEN [ok |-> FALSE, defs |-> heap, context |-> c]
              ELSE AloneBefore(target, p + 1, [heap EXCEPT ![node.def] = r.macro], c)
         ELSE IF node.type = "loadmacros"
         THEN LET r == LoadMacrosNode_render(node.macros, 1, heap, c) IN
              IF r.err # NoError THEN [ok |-> FALSE, defs |-> heap, context |-> c]
              ELSE AloneBefore(target, p + 1, r.defs, c)
         ELSE IF node.type = "with"
         THEN AloneBefore(target, p + 1, heap, Push(c, node.var :> node.value))
         ELSE AloneBefore(target, p + 1, heap, c)

\* the parameter names of a macro
Params(macro) == {macro.args[i] : i \in 1..Len(macro.args)} \cup DOMAIN macro.kwargs

\* the template uses two macros that share a parameter name
SeveralMacros ==
    \E p, q \in 1..Len(nodelist) :
        /\ nodelist[p].type = "use" /\ nodelist[q].type = "use"
        /\ nodelist[p].macro # nodelist[q].macro
        /\ Params(defs[nodelist[p].macro]) \cap Params(defs[nodelist[q].macro]) # {}

\* C2: in a template that uses several macros sharing parameter names, each
\* use renders exactly the output it renders when it is the only macro use
\* of the template.
C2_UsesAreIndependent ==
    (UseFinished /\ SeveralMacros) =>
        LET alone == AloneBefore(trace.node, 1, trace.compiled, <<trace.base[1]>>) IN
        /\ alone.ok
        /\ \E order \in KeyOrders(DOMAIN LastMacro.kwargs) :
              LET r == UseMacroNode_render(LastUse, alone.defs[LastUse.macro],
                                           order, alone.context)
              IN  r.err = NoError /\ r.output = trace.output

\* C3: the body is rendered with the i-th positional parameter bound to the
\* value of the i-th supplied argument (a literal's text, a variable's value
\* in the context at the time of the use, a macro_arg block's contents
\* rendered in that context), for every supplied argument.
C3_PositionalArgumentsBound ==
    (UseFinished /\ SuppliedResolve) =>
        \A i \in 1..Len(LastMacro.args) :
            i <= Len(LastUse.args) =>
                Bound(trace.after, LastMacro.args[i],
                      Resolve(LastUse.args[i], trace.before).v)

\* the values the declared default of keyword `name` of the last macro
\* stands for: a literal's text; for a variable, its value where the macro
\* is defined or where it is used
DefaultValues(name) ==
    LET d == LastCompiled.kwargs[name] IN
    IF d.kind # "var" THEN {d.v}
    ELSE {x.v : x \in {y \in {trace.atdef[LastUse.macro][name],
                              Variable_resolve(d, trace.before)} : y.ok}}

\* C4: for every keyword parameter of the macro, a use that supplies the
\* keyword renders the body with the parameter bound to the supplied value,
\* and a use that does not supply it with the parameter bound to the
\* declared default, independently for each keyword.
C4_KeywordArgumentsBound ==
    (UseFinished /\ SuppliedResolve) =>
        \A name \in DOMAIN LastMacro.kwargs :
            IF name \in DOMAIN LastUse.kwargs
            THEN Bound(trace.after, name,
                       Resolve(LastUse.kwargs[name], trace.before).v)
            ELSE \E v \in DefaultValues(name) : Bound(trace.after, name, v)

\* the keywords the last use leaves to a default that is a context variable
VarDefaults ==
    {name \in DOMAIN LastCompiled.kwargs \ DOMAIN LastUse.kwargs :
        LastCompiled.kwargs[name].kind = "var"}

\* the value the default of `name` had where the last macro is defined
AtDefinition(name) == trace.atdef[LastUse.macro][name]

\* the host rendered the node that defines macro `id` before node `p`
DefinitionRendered(id, p) ==
    \E q \in 1..(p - 1) :
        \/ nodelist[q].type = "define" /\ nodelist[q].def = id /\ nodelist[q].live
        \/ /\ nodelist[q].type = "loadmacros"
           /\ \E i \in 1..Len(nodelist[q].macros) : nodelist[q].macros[i] = id

WellFormed(t) ==
    \A n \in 2..Len(t.bits) : t.bits[n].form \in {"name", "quoted", "number", "kwarg"}

\* token t is a use_macro or macro_block tag that names a macro
NamesMacro(t) == t.tag \in {"use_macro", "macro_block"} /\ Len(t.bits) >= 1

\* the macro tags of the template a loadmacros tag loads
Loaded(t) == TemplateFiles[t.bits[1].text]

\* token t, which was compiled, defines a macro called name
TokenDefines(t, name) ==
    \/ t.tag = "macro" /\ t.bits[1].text = name
    \/ /\ t.tag = "loadmacros"
       /\ \E k \in 1..Len(Loaded(t)) : Loaded(t)[k].bits[1].text = name

\* a token before the i-th defines a macro called name
DefinedEarlier(i, name) == \E j \in 1..(i - 1) : TokenDefines(tokens[j], name)

\* the last token before the i-th that defines name
LastDefining(i, name) ==
    CHOOSE j \in 1..(i - 1) :
        /\ TokenDefines(tokens[j], name)
        /\ \A h \in (j + 1)..(i - 1) : ~TokenDefines(tokens[h], name)

\* the places in a loaded template where a macro called name is defined
Places(t, name) == {k \in 1..Len(Loaded(t)) : Loaded(t)[k].bits[1].text = name}

\* the last of them
LastPlace(t, name) == CHOOSE k \in Places(t, name) : \A h \in Places(t, name) : h <= k

\* the macro tag that stands for name at the i-th token
Declaration(i, name) ==
    LET t == tokens[LastDefining(i, name)] IN
    IF t.tag = "macro" THEN t ELSE Loaded(t)[LastPlace(t, name)]

\* the names a macro tag declares as positional parameters
DeclaredArgs(t) == {n \in 2..Len(t.bits) : t.bits[n].form = "name"}

\* the keywords a macro tag declares
DeclaredKwargs(t) == {t.bits[n].key : n \in {m \in 2..Len(t.bits) : t.bits[m].form = "kwarg"}}

\* the positional arguments a use_macro or macro_block tag supplies
SuppliedArgs(t) ==
    Cardinality({n \in 2..Len(t.bits) : t.bits[n].form \in {"name", "quoted", "number"}})
    + IF t.tag = "macro_block"
      THEN Cardinality({n \in 1..Len(t.inner) : t.inner[n].tag = "macro_arg"})
      ELSE 0

\* the keywords the tag line supplies
SuppliedKwargs(t) == {t.bits[n].key : n \in {m \in 2..Len(t.bits) : t.bits[m].form = "kwarg"}}

\* what stands inside a macro_block is macro_arg tags, macro_kwarg tags that
\* each give one keyword of the macro not given before, and blank text
ValidInner(t, d) ==
    t.tag = "macro_block" =>
        \A n \in 1..Len(t.inner) :
            LET x == t.inner[n] IN
            /\ x.tag = "text" => x.blank
            /\ x.tag = "macro_kwarg" =>
                  /\ Len(x.bits) = 1
                  /\ x.bits[1].text \in DeclaredKwargs(d) \ SuppliedKwargs(t)
                  /\ \A m \in 1..(n - 1) :
                        t.inner[m].tag = "macro_kwarg" => t.inner[m].bits # x.bits

\* the i-th token was compiled into the i-th node
Compiled(i) == i <= Len(nodelist)

\* the last use supplies fewer positional arguments than its macro declares
FewerArgs == Len(LastUse.args) < Len(LastMacro.args)

\* every default the last use falls back on has a value in the context the
\* use node was rendered in
DefaultsResolve ==
    \A n \in DOMAIN LastMacro.kwargs \ DOMAIN LastUse.kwargs :
        BindDefault(LastMacro.kwargs[n], trace.before).ok

\* C6: a use that supplies fewer positional arguments than the macro
\* declares, and is valid otherwise, parses, renders without raising, and
\* renders the body with every missing positional parameter bound to the
\* empty string.
C6_MissingArgumentsAreEmpty ==
    /\ \A i \in 1..Len(tokens) :
          LET t == tokens[i] IN
          (/\ NamesMacro(t) /\ WellFormed(t) /\ DefinedEarlier(i, t.bits[1].text)
           /\ ValidInner(t, Declaration(i, t.bits[1].text))
           /\ SuppliedArgs(t) < Cardinality(DeclaredArgs(Declaration(i, t.bits[1].text))))
          => Compiled(i)
    /\ (trace.node # 0 /\ FewerArgs /\ SuppliedResolve /\ DefaultsResolve)
          => UseFinished
    /\ (UseFinished /\ FewerArgs) =>
          \A i \in (Len(LastUse.args) + 1)..Len(LastMacro.args) :
              Bound(trace.after, LastMacro.args[i], "")

\* a use that supplies one of two positional arguments was rendered in a
\* context that held a value under the name of the missing one
C6_Witness ==
    /\ UseFinished
    /\ Len(LastUse.args) = 1 /\ Len(LastMacro.args) = 2
    /\ Has(trace.before, LastMacro.args[2])
    /\ Get(trace.before, LastMacro.args[2]) # ""
    /\ Bound(trace.after, LastMacro.args[2], "")

\* the name the i-th token gives first
NameOf(i) == tokens[i].bits[1].text

\* what a use_macro or macro_block tag raises when its macro is not defined
\* and its arguments are well formed
NotDefined(i) ==
    [exc |-> "TemplateSyntaxError",
     msg |-> "Macro '{0}' is not defined previously to the {1} tag",
     args |-> <<NameOf(i), tokens[i].tag>>]

\* what it raises when its arguments are not well formed
Malformed(i) ==
    [exc |-> "TemplateSyntaxError",
     msg |-> "Malformed arguments to the {0} tag.",
     args |-> <<tokens[i].tag>>]

\* compiling stopped at the i-th token, which raised e
RaisedAt(i, e) ==
    i = Len(tokens) /\ ~Compiled(i) /\ phase = "error" /\ err = e

\* C7 (as claimed): a use_macro or macro_block tag naming a macro that no
\* earlier token defines raises TemplateSyntaxError "Macro '<name>' is not
\* defined previously to the <tag> tag" when the template is compiled.
C7_UndefinedMacroRaises ==
    \A i \in 1..Len(tokens) :
        (NamesMacro(tokens[i]) /\ ~DefinedEarlier(i, NameOf(i)))
            => RaisedAt(i, NotDefined(i))

\* C7 (amended): ... raises that error when the tag's arguments are well
\* formed, and TemplateSyntaxError "Malformed arguments to the <tag> tag."
\* when they are not: the arguments are parsed before the macro is looked up.
C7_UndefinedMacroRaisesWhenWellFormed ==
    \A i \in 1..Len(tokens) :
        (NamesMacro(tokens[i]) /\ ~DefinedEarlier(i, NameOf(i)))
            => RaisedAt(i, IF WellFormed(tokens[i]) THEN NotDefined(i)
                           ELSE Malformed(i))

\* a tag names a macro that is not defined while another macro is
C7_Witness ==
    /\ Len(tokens) >= 2
    /\ NamesMacro(tokens[Len(tokens)])
    /\ tokens[1].tag \in {"macro", "loadmacros"}
    /\ ~DefinedEarlier(Len(tokens), NameOf(Len(tokens)))
    /\ RaisedAt(Len(tokens), NotDefined(Len(tokens)))

\* the definition node the j-th token returned for name
ReturnedFor(j, name) ==
    IF tokens[j].tag = "macro" THEN nodelist[j].def
    ELSE nodelist[j].macros[LastPlace(tokens[j], name)]

\* a use_macro tag that follows a definition of its name compiles into a
\* node of that definition, and the node renders the definition's body with
\* the use's arguments and the definition's defaults
UseFollowsDefinition ==
    /\ \A i \in 1..Len(tokens) :
          (/\ tokens[i].tag = "use_macro" /\ NamesMacro(tokens[i])
           /\ WellFormed(tokens[i]) /\ DefinedEarlier(i, NameOf(i)))
          => /\ Compiled(i)
             /\ nodelist[i].macro = ReturnedFor(LastDefining(i, NameOf(i)), NameOf(i))
    /\ UseFinished =>
          LET d == Declaration(trace.node, NameOf(trace.node)) IN
          /\ trace.output = RenderNodelist(d.body, trace.after)
          /\ \A n \in 2..Len(d.bits) :
                (/\ d.bits[n].form = "kwarg" /\ d.bits[n].val.form = "quoted"
                 /\ d.bits[n].key \notin DOMAIN LastUse.kwargs)
                => Bound(trace.after, d.bits[n].key, d.bits[n].val.text)

\* C8 (as claimed): after a macro tag, parser._macros maps the macro's name
\* to the node the tag returned; after a loadmacros tag, it maps the name of
\* every macro defined in the loaded template to that macro's node; a
\* following use_macro of such a name parses and renders that macro's body
\* with its arguments and defaults.
C8_MacrosRegistered ==
    /\ \A name \in MacroNames :
          DefinedEarlier(Len(nodelist) + 1, name) =>
              LET j == LastDefining(Len(nodelist) + 1, name) IN
              /\ MacroDefined(macros, name)
              /\ IF tokens[j].tag = "macro"
                 THEN macros.items[name] = nodelist[j].def
                 ELSE \A k \in Places(tokens[j], name) :
                         macros.items[name] = nodelist[j].macros[k]
    /\ UseFollowsDefinition

\* C8 (amended): ... after a loadmacros tag, it maps every name defined in
\* the loaded template to the node of the last macro of that name in the
\* loaded template ...
C8_LastMacroRegistered ==
    /\ \A name \in MacroNames :
          DefinedEarlier(Len(nodelist) + 1, name) =>
              /\ MacroDefined(macros, name)
              /\ macros.items[name] =
                    ReturnedFor(LastDefining(Len(nodelist) + 1, name), name)
    /\ UseFollowsDefinition

\* a template defined m1, loaded lib.html, and rendered a use of m1 with the
\* body and the default of lib.html's m1
C8_Witness ==
    /\ UseFinished
    /\ Len(tokens) = 3
    /\ tokens[1].tag = "macro" /\ NameOf(1) = "m1"
    /\ tokens[2] = LoadToken(<<QuotedBit("lib.html")>>)
    /\ tokens[3].tag = "use_macro" /\ NameOf(3) = "m1"
    /\ trace.output[1] = "L1"
    /\ Bound(trace.after, "k", "default")

\* the repeated_block tags before the i-th token that give the bits `bits`
BlocksBefore(i, bits) ==
    {j \in 1..(i - 1) : tokens[j].tag = "repeated_block" /\ tokens[j].bits = bits}

\* what the block of the j-th token renders in this pass
BlockOutput(j) ==
    RenderNodelist(tokens[j].body, Push(trace.base, "block" :> NameOf(j)))

RECURSIVE Times(_, _)
\* n copies of a sequence, one after the other
Times(seq, n) == IF n = 0 THEN <<>> ELSE seq \o Times(seq, n - 1)

\* the template is a repeated_block followed by nothing but repeat tags of it
OneBlockRepeated ==
    /\ nodelist # <<>> /\ Len(tokens) = Len(nodelist)
    /\ tokens[1].tag = "repeated_block"
    /\ \A i \in 2..Len(tokens) :
          tokens[i].tag = "repeat" /\ tokens[i].bits = tokens[1].bits

\* C9: a repeat X tag after a repeated_block X tag compiles into that block:
\* rendered, it puts out exactly what repeated_block X puts out in the same
\* pass, whatever other repeated blocks and repeats stand around it, so
\* that a template of one repeated_block X and n repeat X puts out the
\* block's content n + 1 times.
C9_RepeatRendersItsBlock ==
    /\ \A i \in 1..Len(tokens) :
          (/\ tokens[i].tag = "repeat" /\ Len(tokens[i].bits) = 1
           /\ BlocksBefore(i, tokens[i].bits) # {})
          => /\ Compiled(i)
             /\ \E j \in BlocksBefore(i, tokens[i].bits) :
                   /\ nodelist[i] = nodelist[j]
                   /\ nodelist[i].name = NameOf(i)
                   /\ nodelist[i].nodelist = tokens[j].body
                   /\ i <= Len(trace.outputs) =>
                         /\ trace.outputs[i] = trace.outputs[j]
                         /\ trace.outputs[i] = BlockOutput(j)
    /\ (phase = "done" /\ OneBlockRepeated) =>
          out = Times(BlockOutput(1), Len(nodelist))

\* two repeated blocks of different content were rendered, and then a
\* repeat of the first of them
C9_Witness ==
    /\ phase = "done"
    /\ Len(tokens) = 3
    /\ tokens[1].tag = "repeated_block" /\ tokens[2].tag = "repeated_block"
    /\ tokens[3].tag = "repeat" /\ tokens[3].bits = tokens[1].bits
    /\ trace.outputs[3] = trace.outputs[1]
    /\ trace.outputs[3] # trace.outputs[2]
    /\ out = trace.outputs[1] \o trace.outputs[2] \o trace.outputs[1]

\* C10: a repeat X tag with no repeated_block X tag before it raises
\* TemplateSyntaxError "No repeated block X tag was found before the repeat
\* tag" when the template is compiled.
C10_RepeatWithoutBlockRaises ==
    \A i \in 1..Len(tokens) :
        (/\ tokens[i].tag = "repeat" /\ Len(tokens[i].bits) = 1
         /\ BlocksBefore(i, tokens[i].bits) = {})
        => RaisedAt(i, [exc |-> "TemplateSyntaxError",
                        msg |-> "No repeated block {0} tag was found before the {1} tag",
                        args |-> <<NameOf(i), "repeat">>])

\* the docstring's example template, and the same with the tag spelled as
\* it is registered
DocumentedTemplate ==
    << DocumentedBlockToken(<<NameBit("title")>>, TitleBody),
       TextToken(" "),
       RepeatToken(<<NameBit("title")>> ) >>

RegisteredTemplate ==
    << RepeatedBlockToken(<<NameBit("title")>>, TitleBody),
       TextToken(" "),
       RepeatToken(<<NameBit("title")>>) >>

\* the tokens handled so far are the first tokens of template
Begins(template) ==
    /\ tokens # <<>>
    /\ Len(tokens) <= Len(template)
    /\ \A i \in 1..Len(tokens) : tokens[i] = template[i]

\* every tag of template compiles, and the template renders the text
\* "Repeated Block Tags" twice, around the text between the tags
ParsesAndRendersTwice(template) ==
    /\ Begins(template) => Compiled(Len(tokens))
    /\ (tokens = template /\ phase = "done") =>
          out = <<"Repeated Block Tags", " ", "Repeated Block Tags">>

====
